---- MODULE Spec2Model ----
(***************************************************************************)
(* Blackjack bankroll simulators of nathanfoale/skycity_blackjack.         *)
(*                                                                         *)
(* Four scripts share one shape: a loop over sessions, in each session a   *)
(* loop over hands that (re)builds the shoe, sizes a bet, resolves a hand  *)
(* and appends the bankroll to the session's trajectory.                   *)
(*   "full" = blackjack_simulator_full.py   (cards are really dealt)       *)
(*   "sky"  = skycity_blackjack.py          (cards are really dealt)       *)
(*   "sim"  = blackjack_simulation.py       (outcome drawn at random)      *)
(*   "sim1" = blackjack_simulation1.py      (outcome drawn at random)      *)
(*                                                                         *)
(* Money is kept in cents (the scripts use Python floats); the true count  *)
(* is kept as the exact fraction num/den.  random.shuffle is a choice of   *)
(* one permutation out of the bounded family Shuffle(_, s), s \in          *)
(* 1..NumShuffles; np.random draws are choices with \E.  A trajectory is   *)
(* kept as its length and its last entry, which is what the padding and    *)
(* the statistics read (len(r), r[-1]).                                    *)
(***************************************************************************)
EXTENDS Integers, Sequences, FiniteSets, TLC

VARIABLES
    variant,        \* which script runs
    cfg,            \* the sidebar inputs of the script
    session,        \* index of the running session, 1..num_simulations
    shoe,           \* shoe / deck: a list, cards are popped from its end
    running_count,  \* running_count of the session
    bankroll,       \* bankroll of the session, in cents
    bankrolls,      \* trajectory of the session: [len, last]
    h,              \* number of loop iterations begun and finished
    state,          \* "playing", "ruined", "exhausted", "stopped", "crashed"
    seen,           \* Hi-Lo sum of every card popped since the last (re)shuffle
    last            \* what the last step did (observation only)

vars == <<variant, cfg, session, shoe, running_count, bankroll, bankrolls, h,
          state, seen, last>>

-----------------------------------------------------------------------------
(* Bounds of the model *)

NumShuffles == 3        \* permutations random.shuffle may return for a shoe
NumDeals == 9           \* permutations it may return in skycity_blackjack.py
NumHandsFull == 80      \* num_hands given to blackjack_simulator_full.py
NumSimulations == 2     \* num_simulations
NumHandsSky == 44       \* num_hands given to skycity_blackjack.py
MaxGainSky == 50        \* dollars above the initial bankroll that are followed
NumHandsShort == 4      \* num_hands of a short session of the counting scripts
MaxGainShort == 1500    \* dollars above the initial bankroll followed in it
NumHandsSim == 368      \* num_hands of the long session of blackjack_simulation.py
MaxGainLong == 0        \* dollars above the initial bankroll followed in it
NumHandsSim1 == 56      \* num_hands of the long session of blackjack_simulation1.py

-----------------------------------------------------------------------------
(* Cards *)

all_ranks == <<"2", "3", "4", "5", "6", "7", "8", "9", "10", "J", "Q", "K", "A">>

Ranks == {all_ranks[i] : i \in 1..Len(all_ranks)}

card_values ==
    [r \in Ranks |->
        CASE r = "2" -> 2 [] r = "3" -> 3 [] r = "4" -> 4 [] r = "5" -> 5
          [] r = "6" -> 6 [] r = "7" -> 7 [] r = "8" -> 8 [] r = "9" -> 9
          [] r = "A" -> 11
          [] OTHER -> 10]

hi_lo_values ==
    [r \in Ranks |->
        IF r \in {"2", "3", "4", "5", "6"} THEN 1
        ELSE IF r \in {"7", "8", "9"} THEN 0
        ELSE -1]

Min(a, b) == IF a <= b THEN a ELSE b

Cents(dollars) == dollars * 100

\* sum(f[c] for c in hand)
SumOver(f, hand) ==
    LET S[i \in 0..Len(hand)] == IF i = 0 THEN 0 ELSE S[i - 1] + f[hand[i]]
    IN  S[Len(hand)]

\* hand.count(r)
Count(hand, r) == Cardinality({i \in 1..Len(hand) : hand[i] = r})

\* list * 4 * n
create_shoe_of(n) ==
    SubSeq([i \in 1..(Len(all_ranks) * 4 * n) |-> all_ranks[((i - 1) % Len(all_ranks)) + 1]],
           1, Len(all_ranks) * 4 * n)

\* One riffle of a 52-card deck: a permutation of 1..52.
Pattern ==
    <<15, 40, 23,  4,  7, 30, 12, 34, 13, 44, 47,  6,  9,
      18,  2, 19, 26, 38, 49, 43, 42, 22, 52, 37, 39,  8,
      51,  5,  1, 17, 16, 45, 27, 31, 25, 33,  3, 10, 32,
      28, 20, 46, 41, 21, 35, 24, 36, 11, 50, 14, 48, 29>>

\* random.shuffle(deck): the s-th permutation of the family.  The list is
\* taken in decks of 52 positions; deck number b is riffled by Pattern turned
\* 5 * b places, and the whole list is cut 4 * (s - 1) cards deep, so
\* position i of the result holds the card of position Src(i).
Shuffle(deck, s) ==
    LET N == Len(deck)
        Src(i) ==
            LET j == ((i - 1 + 4 * (s - 1)) % N) + 1
                b == (j - 1) \div 52
                k == 52 * b + Pattern[((j - 1 + 5 * b) % 52) + 1]
            IN  IF k <= N THEN k ELSE j
    IN  SubSeq([i \in 1..N |-> deck[Src(i)]], 1, N)

\* The outcomes random.shuffle(deck) may have, as a list indexed by s.
Shuffles(deck, k) == SubSeq([s \in 1..k |-> Shuffle(deck, s)], 1, k)

\* A hand reads the deck through the number n of cards it has popped so far:
\* deck.pop() returns Card(deck, n) and leaves n + 1 cards popped.
Card(deck, n) == deck[Len(deck) - n]
IsEmpty(deck, n) == n >= Len(deck)

\* The n cards popped, in the order they left, and the list that is left.
Take(deck, n) == SubSeq([i \in 1..n |-> deck[Len(deck) - i + 1]], 1, n)
Drop(deck, n) == SubSeq(deck, 1, Len(deck) - n)

-----------------------------------------------------------------------------
(* blackjack_simulator_full.py *)

FULL_NUM_DECKS == 8

\* RESHUFFLE_PENETRATION = 0.25, as the fraction 1/4
RESHUFFLE_PENETRATION == [num |-> 1, den |-> 4]

rules ==
    [gv \in {"Crown Blackjack", "Blackjack Plus", "Free Bet Blackjack"} |->
        CASE gv = "Crown Blackjack" ->
                [blackjack_payout |-> 15, dealer_hits_soft_17 |-> TRUE,
                 dealer_push_22 |-> FALSE, free_doubles |-> FALSE,
                 five_card_charlie |-> FALSE,
                 counting_allowed |-> cfg.strategy_mode = "Card Counting + Basic Strategy"]
          [] gv = "Blackjack Plus" ->
                [blackjack_payout |-> 12, dealer_hits_soft_17 |-> TRUE,
                 dealer_push_22 |-> TRUE, free_doubles |-> FALSE,
                 five_card_charlie |-> TRUE, counting_allowed |-> FALSE]
          [] OTHER ->
                [blackjack_payout |-> 15, dealer_hits_soft_17 |-> TRUE,
                 dealer_push_22 |-> TRUE, free_doubles |-> TRUE,
                 five_card_charlie |-> FALSE, counting_allowed |-> FALSE]]

\* blackjack_payout is kept in tenths: 1.5 -> 15, 1.2 -> 12
current_rules == rules[cfg.game_variant]

create_shoe == create_shoe_of(FULL_NUM_DECKS)

\* random.shuffle(shoe) of a fresh shoe
full_shuffled == Shuffles(create_shoe, NumShuffles)

\* A hand_value whose loop takes at most one Ace down from 11 to 1.
ReduceOnce(val, aces) ==
    IF val > 21 /\ aces > 0 THEN val - 10 ELSE val

\* The while val > 21 and aces loop of hand_value.
RECURSIVE Reduce(_, _)
Reduce(val, aces) ==
    IF val > 21 /\ aces > 0 THEN Reduce(val - 10, aces - 1) ELSE val

hand_value(hand) == Reduce(SumOver(card_values, hand), Count(hand, "A"))

is_soft(hand) ==
    /\ Count(hand, "A") > 0
    /\ hand_value(hand) <= 21
    /\ hand_value(hand) # SumOver(card_values, hand)

\* A dealer_play that draws below 16 only and returns on 16.
dealer_stands_on_16(dealer) == hand_value(dealer) < 16

\* Whether the loop of dealer_play appends a card for this hand.
dealer_draws(dealer) ==
    LET val == hand_value(dealer)
    IN  IF val > 21 THEN FALSE
        ELSE IF val > 17 THEN FALSE
        ELSE IF val = 17 /\ is_soft(dealer) /\ current_rules.dealer_hits_soft_17 THEN TRUE
        ELSE IF val < 17 THEN TRUE
        ELSE FALSE

\* dealer_play(dealer, deck): the final hand, the cards popped, and whether
\* a pop found the deck empty (IndexError).
RECURSIVE dealer_play(_, _, _)
dealer_play(dealer, deck, n) ==
    IF ~dealer_draws(dealer) THEN [dealer |-> dealer, n |-> n, crashed |-> FALSE]
    ELSE IF IsEmpty(deck, n) THEN [dealer |-> dealer, n |-> n, crashed |-> TRUE]
    ELSE dealer_play(Append(dealer, Card(deck, n)), deck, n + 1)

\* A strategy that also doubles a two-card 12.
basic_strategy_doubles_12(player, dealer_upcard, can_double) ==
    LET total == hand_value(player)
    IN  IF Len(player) = 2 /\ can_double /\ total \in {9, 10, 11, 12} THEN "double"
        ELSE IF total >= 17 THEN "stand"
        ELSE IF 13 <= total /\ total <= 16
            THEN (IF dealer_upcard \in {"2", "3", "4", "5", "6"} THEN "stand" ELSE "hit")
        ELSE "hit"

basic_strategy(player, dealer_upcard, can_double) ==
    LET total == hand_value(player)
    IN  IF Len(player) = 2 /\ can_double /\ total \in {9, 10, 11} THEN "double"
        ELSE IF total >= 17 THEN "stand"
        ELSE IF 13 <= total /\ total <= 16
            THEN (IF dealer_upcard \in {"2", "3", "4", "5", "6"} THEN "stand" ELSE "hit")
        ELSE IF total = 12
            THEN (IF dealer_upcard \in {"4", "5", "6"} THEN "stand" ELSE "hit")
        ELSE "hit"

\* A hit loop that leaves on a bust without returning the loss: the hand
\* goes on to the dealer actions.
RECURSIVE player_hits_on_to_dealer(_, _, _, _, _)
player_hits_on_to_dealer(player, deck, n, dealer_up, action) ==
    IF action # "hit" THEN [player |-> player, n |-> n, bust |-> FALSE, crashed |-> FALSE]
    ELSE IF IsEmpty(deck, n) THEN [player |-> player, n |-> n, bust |-> FALSE, crashed |-> TRUE]
    ELSE LET p == Append(player, Card(deck, n))
         IN  IF hand_value(p) > 21
             THEN [player |-> p, n |-> n + 1, bust |-> FALSE, crashed |-> FALSE]
             ELSE player_hits_on_to_dealer(p, deck, n + 1, dealer_up,
                                           basic_strategy(p, dealer_up, FALSE))

\* The while action == "hit" loop of simulate_hand.
RECURSIVE player_hits(_, _, _, _, _)
player_hits(player, deck, n, dealer_up, action) ==
    IF action # "hit" THEN [player |-> player, n |-> n, bust |-> FALSE, crashed |-> FALSE]
    ELSE IF IsEmpty(deck, n) THEN [player |-> player, n |-> n, bust |-> FALSE, crashed |-> TRUE]
    ELSE LET p == Append(player, Card(deck, n))
         IN  IF hand_value(p) > 21
             THEN [player |-> p, n |-> n + 1, bust |-> TRUE, crashed |-> FALSE]
             ELSE player_hits(p, deck, n + 1, dealer_up, basic_strategy(p, dealer_up, FALSE))

\* A bet sizing that scales with the true count under every rule set.
full_bet_always_counting(true_count, bank) ==
    LET base == Cents(cfg.min_bet)
        sized == IF true_count.num >= true_count.den
                 THEN (IF true_count.num >= 10 * true_count.den
                       THEN base * 10
                       ELSE (base * true_count.num) \div true_count.den)
                 ELSE base
    IN  Min(bank, sized)

\* bet = min_bet, times min(true_count, 10) when counting is allowed and
\* true_count >= 1, capped at the bankroll (lines 117-123).
full_bet(true_count, bank) ==
    LET base == Cents(cfg.min_bet)
        sized == IF current_rules.counting_allowed /\ true_count.num >= true_count.den
                 THEN (IF true_count.num >= 10 * true_count.den
                       THEN base * 10
                       ELSE (base * true_count.num) \div true_count.den)
                 ELSE base
    IN  Min(bank, sized)

\* A double that stakes twice the bet whatever the bankroll holds.
full_double_bet_uncapped(bank, bet) == bet * 2

\* Line 147: the bet after a double, bet = min(bankroll, bet * 2).
full_double_bet(bank, bet) == Min(bank, bet * 2)

\* The result of one hand: what simulate_hand returns (bankroll,
\* running_count), the number n of cards it popped, and what it did on the way.
HandResult(bank, rc, n, bet, player, dealer, outcome, dealer_played, doubled, crashed) ==
    [bankroll |-> bank, running_count |-> rc, n |-> n, bet |-> bet,
     player |-> player, dealer |-> dealer, outcome |-> outcome,
     dealer_played |-> dealer_played, doubled |-> doubled, crashed |-> crashed]

\* Lines 155-173: dealer actions and settlement.
full_settle(bank, rc, bet, player, dealer0, deck, n, doubled) ==
    LET dp == dealer_play(dealer0, deck, n)
        dealer == dp.dealer
        dealer_val == hand_value(dealer)
        player_val == hand_value(player)
        R(b, o) == HandResult(b, rc, dp.n, bet, player, dealer, o, TRUE, doubled, FALSE)
    IN  IF dp.crashed
        THEN HandResult(bank, rc, dp.n, bet, player, dealer, "crash", TRUE, doubled, TRUE)
        ELSE IF current_rules.five_card_charlie /\ Len(player) >= 5 /\ player_val <= 21
            THEN R(bank + bet, "charlie")
        ELSE IF dealer_val > 21 THEN R(bank + bet, "win")
        ELSE IF current_rules.dealer_push_22 /\ dealer_val = 22 THEN R(bank, "push")
        ELSE IF player_val > dealer_val THEN R(bank + bet, "win")
        ELSE IF player_val < dealer_val THEN R(bank - bet, "lose")
        ELSE R(bank, "push")

simulate_hand(deck, true_count, bank) ==
    LET bet == full_bet(true_count, bank)
    IN  IF Len(deck) < 4
        THEN HandResult(bank, 0, Len(deck), bet, <<>>, <<>>, "crash", FALSE, FALSE, TRUE)
        ELSE
        LET player == <<Card(deck, 0), Card(deck, 1)>>
            dealer == <<Card(deck, 2), Card(deck, 3)>>
            dealer_up == dealer[1]
            rc == SumOver(hi_lo_values, player \o dealer)
            R(b, o) == HandResult(b, rc, 4, bet, player, dealer, o, FALSE, FALSE, FALSE)
        IN  IF hand_value(player) = 21 /\ Len(player) = 2
            THEN (IF hand_value(dealer) = 21 /\ Len(dealer) = 2
                  THEN R(bank, "push")
                  ELSE R(bank + (bet * current_rules.blackjack_payout) \div 10, "blackjack"))
            ELSE IF hand_value(dealer) = 21 /\ Len(dealer) = 2
            THEN R(bank - bet, "lose")
            ELSE
            LET action == basic_strategy(player, dealer_up, TRUE)
            IN  IF action = "double"
                THEN (IF IsEmpty(deck, 4)
                      THEN HandResult(bank, rc, 4, bet, player, dealer, "crash", FALSE, TRUE, TRUE)
                      ELSE full_settle(bank, rc, full_double_bet(bank, bet),
                                       Append(player, Card(deck, 4)), dealer, deck, 5, TRUE))
                ELSE
                LET ph == player_hits(player, deck, 4, dealer_up, action)
                IN  IF ph.crashed
                    THEN HandResult(bank, rc, ph.n, bet, ph.player, dealer, "crash", FALSE, FALSE, TRUE)
                    ELSE IF ph.bust
                    THEN HandResult(bank - bet, rc, ph.n, bet, ph.player, dealer, "lose", FALSE, FALSE, FALSE)
                    ELSE full_settle(bank, rc, bet, ph.player, dealer, deck, ph.n, FALSE)

\* A loop that never finds the shoe short.
full_never_reshuffle(deck) == FALSE

\* A loop that finds the shoe short at half its size.
full_reshuffle_at_half(deck) == Len(deck) * 2 < Len(create_shoe)

\* len(shoe) < len(create_shoe()) * RESHUFFLE_PENETRATION
full_needs_reshuffle(deck) ==
    Len(deck) * RESHUFFLE_PENETRATION.den < Len(create_shoe) * RESHUFFLE_PENETRATION.num

\* true_count = running_count / decks_remaining if decks_remaining > 0 else 0,
\* with decks_remaining = len(shoe) / 52
full_true_count(rc, deck) ==
    IF Len(deck) > 0 THEN [num |-> rc * 52, den |-> Len(deck)] ELSE [num |-> 0, den |-> 1]

\* What a step leaves in `last`.
Step(event, r, before, len_before) ==
    [event |-> event, bet |-> r.bet, before |-> before, player |-> r.player,
     dealer |-> r.dealer, outcome |-> r.outcome, dealer_played |-> r.dealer_played,
     doubled |-> r.doubled, len_before |-> len_before, popped |-> r.n]

NoHand == [bet |-> 0, player |-> <<>>, dealer |-> <<>>, outcome |-> "none",
           dealer_played |-> FALSE, doubled |-> FALSE, n |-> 0]

\* simulation_result.append(bankroll)
TrajAppend(traj, b) == [len |-> traj.len + 1, last |-> b]

EmptyTraj == [len |-> 0, last |-> 0]

\* The sidebar inputs of blackjack_simulator_full.py (lines 36-41)
FullConfigs ==
    [game_variant : {"Crown Blackjack", "Blackjack Plus", "Free Bet Blackjack"},
     strategy_mode : {"Perfect Basic Strategy", "Card Counting + Basic Strategy"},
     initial_bankroll : {100, 100000},
     min_bet : {500},
     spread : {1},
     num_decks : {FULL_NUM_DECKS},
     num_simulations : {NumSimulations},
     num_hands : {NumHandsFull},
     bankroll_cap : {0}]

\* A session start that leaves the running count of the session before.
FullStartKeepsCount(s) ==
    /\ shoe' = full_shuffled[s]
    /\ bankroll' = Cents(cfg.initial_bankroll)
    /\ running_count' = running_count
    /\ bankrolls' = EmptyTraj
    /\ h' = 0
    /\ state' = "playing"
    /\ seen' = 0
    /\ last' = Step("start", NoHand, Cents(cfg.initial_bankroll), Len(create_shoe))

\* Lines 181-186: the start of a session.
FullStart(s) ==
    /\ shoe' = full_shuffled[s]
    /\ bankroll' = Cents(cfg.initial_bankroll)
    /\ running_count' = 0
    /\ bankrolls' = EmptyTraj
    /\ h' = 0
    /\ state' = "playing"
    /\ seen' = 0
    /\ last' = Step("start", NoHand, Cents(cfg.initial_bankroll), Len(create_shoe))

\* A reshuffle branch without running_count = 0.
FullReshuffleKeepsCount ==
    /\ variant = "full" /\ state = "playing"
    /\ full_needs_reshuffle(shoe)
    /\ \E s \in 1..NumShuffles : shoe' = full_shuffled[s]
    /\ seen' = 0
    /\ last' = Step("reshuffle", NoHand, bankroll, Len(shoe))
    /\ UNCHANGED <<variant, cfg, session, running_count, bankroll, bankrolls, h, state>>

\* Lines 189-192: the reshuffle branch at the top of the hand loop.
FullReshuffle ==
    /\ variant = "full" /\ state = "playing"
    /\ full_needs_reshuffle(shoe)
    /\ \E s \in 1..NumShuffles : shoe' = full_shuffled[s]
    /\ running_count' = 0
    /\ seen' = 0
    /\ last' = Step("reshuffle", NoHand, bankroll, Len(shoe))
    /\ UNCHANGED <<variant, cfg, session, bankroll, bankrolls, h, state>>

\* Lines 194-202: one hand, once the reshuffle check has passed.
FullHand ==
    /\ variant = "full" /\ state = "playing"
    /\ ~full_needs_reshuffle(shoe)
    /\ LET true_count == full_true_count(running_count, shoe)
           r == simulate_hand(shoe, true_count, bankroll)
       IN  /\ shoe' = Drop(shoe, r.n)
           /\ seen' = seen + SumOver(hi_lo_values, Take(shoe, r.n))
           /\ last' = Step("hand", r, bankroll, Len(shoe))
           /\ IF r.crashed
              THEN /\ state' = "crashed"
                   /\ UNCHANGED <<bankroll, running_count, bankrolls, h>>
              ELSE /\ bankroll' = r.bankroll
                   /\ running_count' = running_count + r.running_count
                   /\ bankrolls' = TrajAppend(bankrolls, r.bankroll)
                   /\ h' = h + 1
                   /\ state' = IF r.bankroll <= 0 THEN "ruined"
                               ELSE IF h + 1 = cfg.num_hands THEN "exhausted"
                               ELSE "playing"
    /\ UNCHANGED <<variant, cfg, session>>

-----------------------------------------------------------------------------
(* skycity_blackjack.py *)

SKY_NUM_DECKS == 6

\* BLACKJACK_PAYOUT = 1.5, as the fraction 3/2
SKY_BLACKJACK_PAYOUT == [num |-> 3, den |-> 2]

MIN_BET == 25

\* all_cards = list(CARD_VALUES.keys()) * 4 * NUM_DECKS
sky_all_cards == create_shoe_of(SKY_NUM_DECKS)

\* random.shuffle(deck) of a fresh copy of all_cards
sky_shuffled == Shuffles(sky_all_cards, NumDeals)

\* deal_card(deck): deck.pop() if deck else random.choice(ranks); fb is the
\* rank random.choice returns.
deal_card(deck, n, fb) ==
    IF ~IsEmpty(deck, n)
    THEN [card |-> Card(deck, n), n |-> n + 1, fallback |-> FALSE]
    ELSE [card |-> fb, n |-> n, fallback |-> TRUE]

\* A hand pops fewer than 52 cards, so the fallback of deal_card cannot be
\* reached from a deck of 52 cards or more; only below that is its rank chosen.
FallbackChoices(deck) == IF Len(deck) >= 52 THEN {all_ranks[1]} ELSE Ranks

is_blackjack(hand) == Len(hand) = 2 /\ hand_value(hand) = 21

\* The loop condition of play_dealer_hand.
sky_dealer_draws(hand) ==
    \/ hand_value(hand) < 17
    \/ (hand_value(hand) = 17 /\ Count(hand, "A") > 0 /\ SumOver(card_values, hand) > 17)

RECURSIVE play_dealer_hand(_, _, _, _, _)
play_dealer_hand(deck, n, hand, fb, fell) ==
    IF ~sky_dealer_draws(hand) THEN [dealer |-> hand, n |-> n, fallback |-> fell]
    ELSE LET c == deal_card(deck, n, fb)
         IN  play_dealer_hand(deck, c.n, Append(hand, c.card), fb, fell \/ c.fallback)

sky_basic_strategy(player_hand, dealer_card) ==
    LET value == hand_value(player_hand)
    IN  IF value <= 11 THEN "hit"
        ELSE IF 12 <= value /\ value <= 16
            THEN (IF dealer_card \in {"2", "3", "4", "5", "6"} THEN "stand" ELSE "hit")
        ELSE "stand"

\* Lines 103-106: the player's hit loop.
RECURSIVE sky_player_hits(_, _, _, _, _, _)
sky_player_hits(player, deck, n, dealer_card, fb, fell) ==
    IF sky_basic_strategy(player, dealer_card) # "hit"
    THEN [player |-> player, n |-> n, fallback |-> fell]
    ELSE LET c == deal_card(deck, n, fb)
             p == Append(player, c.card)
         IN  IF hand_value(p) > 21
             THEN [player |-> p, n |-> c.n, fallback |-> fell \/ c.fallback]
             ELSE sky_player_hits(p, deck, c.n, dealer_card, fb, fell \/ c.fallback)

\* A settlement that pays every win at the blackjack payout.
sky_settle_every_win_at_payout(bank, bet, outcome) ==
    IF outcome \in {"blackjack", "win"}
    THEN bank + (bet * SKY_BLACKJACK_PAYOUT.num) \div SKY_BLACKJACK_PAYOUT.den
    ELSE IF outcome = "lose" THEN bank - bet
    ELSE bank

\* A settlement that pays a natural even money.
sky_settle_even_money(bank, bet, outcome) ==
    IF outcome \in {"blackjack", "win"} THEN bank + bet
    ELSE IF outcome = "lose" THEN bank - bet
    ELSE bank

\* Lines 124-129: the bankroll after an outcome.
sky_settle(bank, bet, outcome) ==
    IF outcome = "blackjack" THEN bank + (bet * SKY_BLACKJACK_PAYOUT.num) \div SKY_BLACKJACK_PAYOUT.den
    ELSE IF outcome = "win" THEN bank + bet
    ELSE IF outcome = "lose" THEN bank - bet
    ELSE bank

\* Lines 89-129: one hand from a freshly shuffled deck.
sky_hand(deck, bank, fb) ==
    LET bet == Cents(MIN_BET)
        c1 == deal_card(deck, 0, fb)
        c2 == deal_card(deck, c1.n, fb)
        c3 == deal_card(deck, c2.n, fb)
        c4 == deal_card(deck, c3.n, fb)
        player == <<c1.card, c2.card>>
        dealer == <<c3.card, c4.card>>
        fell4 == c1.fallback \/ c2.fallback \/ c3.fallback \/ c4.fallback
        R(o, pl, dl, n, played, fell) ==
            HandResult(sky_settle(bank, bet, o), 0, n, bet, pl, dl, o, played, FALSE, fell)
    IN  IF is_blackjack(player)
        THEN (IF is_blackjack(dealer)
              THEN R("push", player, dealer, c4.n, FALSE, fell4)
              ELSE R("blackjack", player, dealer, c4.n, FALSE, fell4))
        ELSE IF is_blackjack(dealer)
        THEN R("lose", player, dealer, c4.n, FALSE, fell4)
        ELSE
        LET ph == sky_player_hits(player, deck, c4.n, dealer[1], fb, fell4)
            player_score == hand_value(ph.player)
        IN  IF player_score > 21
            THEN R("lose", ph.player, dealer, ph.n, FALSE, ph.fallback)
            ELSE
            LET dp == play_dealer_hand(deck, ph.n, dealer, fb, ph.fallback)
                dealer_score == hand_value(dp.dealer)
                o == IF dealer_score > 21 THEN "win"
                     ELSE IF dealer_score > player_score THEN "lose"
                     ELSE IF dealer_score < player_score THEN "win"
                     ELSE "push"
            IN  R(o, ph.player, dp.dealer, dp.n, TRUE, dp.fallback)

\* The sidebar inputs of skycity_blackjack.py (lines 70-72); bankroll_cap
\* bounds the bankrolls the model follows.
SkyConfigs ==
    [game_variant : {"SkyCity"},
     strategy_mode : {"Perfect Basic Strategy"},
     initial_bankroll : {1000},
     min_bet : {MIN_BET},
     spread : {1},
     num_decks : {SKY_NUM_DECKS},
     num_simulations : {NumSimulations},
     num_hands : {NumHandsSky},
     bankroll_cap : {1000 + MaxGainSky}]

\* Line 78-79: the start of a session (the deck is built inside the loop).
SkyStart ==
    /\ shoe' = <<>>
    /\ bankroll' = Cents(cfg.initial_bankroll)
    /\ running_count' = 0
    /\ bankrolls' = EmptyTraj
    /\ h' = 0
    /\ state' = "playing"
    /\ seen' = 0
    /\ last' = Step("start", NoHand, Cents(cfg.initial_bankroll), 0)

\* Lines 82-87: the deck is rebuilt, then the bankroll is below MIN_BET: the
\* bankroll is appended once more and the loop is left.
SkyStop ==
    /\ variant = "sky" /\ state = "playing"
    /\ bankroll < MIN_BET * 100
    /\ \E s \in 1..NumDeals : shoe' = sky_shuffled[s]
    /\ bankrolls' = TrajAppend(bankrolls, bankroll)
    /\ state' = "stopped"
    /\ seen' = 0
    /\ last' = Step("stop", NoHand, bankroll, Len(sky_all_cards))
    /\ UNCHANGED <<variant, cfg, session, bankroll, running_count, h>>

\* Lines 82-131: the deck is rebuilt and one hand is played.
SkyHand ==
    /\ variant = "sky" /\ state = "playing"
    /\ ~(bankroll < MIN_BET * 100)
    /\ \E s \in 1..NumDeals :
         LET deck == sky_shuffled[s]
         IN  \E fb \in FallbackChoices(deck) :
               LET r == sky_hand(deck, bankroll, fb)
               IN  /\ r.bankroll <= Cents(cfg.bankroll_cap)
                   /\ shoe' = Drop(deck, r.n)
                   /\ bankroll' = r.bankroll
                   /\ bankrolls' = TrajAppend(bankrolls, r.bankroll)
                   /\ seen' = SumOver(hi_lo_values, Take(deck, r.n))
                   /\ last' = [Step("hand", r, bankroll, Len(deck))
                                 EXCEPT !.event = IF r.crashed THEN "fallback" ELSE "hand"]
                   /\ h' = h + 1
                   /\ state' = IF h + 1 = cfg.num_hands THEN "exhausted" ELSE "playing"
    /\ UNCHANGED <<variant, cfg, session, running_count>>

-----------------------------------------------------------------------------
(* blackjack_simulation.py *)

SIM_NUM_DECKS == 8

\* BLACKJACK_PAYOUT = 1.5, as the fraction 3/2
SIM_BLACKJACK_PAYOUT == [num |-> 3, den |-> 2]

\* all_cards = list(card_values.keys()) * 4 * NUM_DECKS
sim_all_cards == create_shoe_of(SIM_NUM_DECKS)

\* random.shuffle(deck) of a fresh copy of all_cards
sim_shuffled == Shuffles(sim_all_cards, NumShuffles)

\* running_count / decks_remaining without the guard and with the division
\* turned into a product.
true_count_times_decks(rc, cards_left) == [num |-> rc * cards_left, den |-> 52]

\* get_true_count(running_count, len(deck) / 52), as a fraction
get_true_count(rc, cards_left) ==
    IF cards_left > 0 THEN [num |-> rc * 52, den |-> cards_left] ELSE [num |-> 0, den |-> 1]

\* round(x) of Python 3 for x = num/den, den > 0: to the nearest integer,
\* a half to the even one.
PyRound(x) ==
    LET q == x.num \div x.den
        r == x.num - q * x.den
    IN  IF 2 * r < x.den THEN q
        ELSE IF 2 * r > x.den THEN q + 1
        ELSE IF q % 2 = 0 THEN q ELSE q + 1

\* len(deck) < 52: the reshuffle test of both counting scripts
count_needs_reshuffle(deck) == Len(deck) < 52

\* Lines 81-84: bet sizing from the rounded true count.
sim_base_bet(true_count, bank) ==
    LET base == Cents(cfg.min_bet)
        sized == IF true_count > 1 THEN base * Min(cfg.spread, true_count) ELSE base
    IN  Min(bank, sized)

\* Lines 87-90: double_down or splittable doubles the bet, up to the bankroll.
sim_bet(true_count, bank, dbl) ==
    LET bet == sim_base_bet(true_count, bank)
    IN  IF dbl THEN Min(bank, bet * 2) ELSE bet

\* Lines 98-104: the probabilities given to np.random.choice, in thousandths.
sim_probs(true_count) ==
    LET edge == 5 + 5 * true_count
        win == Min(440 + edge, 520)
        lose == IF 440 - edge >= 360 THEN 440 - edge ELSE 360
    IN  [win |-> win, lose |-> lose, push |-> 1000 - win - lose]

\* The outcomes np.random.choice can return: those of probability > 0.
sim_outcomes(true_count) ==
    {o \in {"win", "lose", "push"} : sim_probs(true_count)[o] > 0}

\* np.random.choice raises ValueError on a negative probability.
sim_probs_ok(true_count) ==
    \A o \in {"win", "lose", "push"} : sim_probs(true_count)[o] >= 0

\* np.random.rand() < bj_prob can be true only when tens and aces are left.
sim_bj_possible(deck, n) ==
    /\ \E i \in 1..(Len(deck) - n) : deck[i] \in {"10", "J", "Q", "K"}
    /\ \E i \in 1..(Len(deck) - n) : deck[i] = "A"

\* The values np.random.rand() < bj_prob can take; it is drawn after a win.
sim_bj_draws(deck, n, outcome) ==
    IF outcome = "win" /\ sim_bj_possible(deck, n) THEN {FALSE, TRUE} ELSE {FALSE}

\* Lines 106-113: the bankroll after the outcome; bj is the blackjack draw.
sim_settle(bank, bet, outcome, bj) ==
    IF outcome = "win"
    THEN (IF bj THEN bank + (bet * SIM_BLACKJACK_PAYOUT.num) \div SIM_BLACKJACK_PAYOUT.den
          ELSE bank + bet)
    ELSE IF outcome = "lose" THEN bank - bet
    ELSE bank

\* The sidebar inputs of blackjack_simulation.py (lines 43-47): short
\* sessions with every outcome followed, and one long session that reaches
\* the reshuffle.
SimConfigs ==
    [game_variant : {"Crown Melbourne"},
     strategy_mode : {"Card Counting + Basic Strategy"},
     initial_bankroll : {1000},
     min_bet : {500},
     spread : {1, 20},
     num_decks : {SIM_NUM_DECKS},
     num_simulations : {NumSimulations},
     num_hands : {NumHandsShort},
     bankroll_cap : {1000 + MaxGainShort}]
    \cup
    [game_variant : {"Crown Melbourne"},
     strategy_mode : {"Card Counting + Basic Strategy"},
     initial_bankroll : {1000},
     min_bet : {500},
     spread : {20},
     num_decks : {SIM_NUM_DECKS},
     num_simulations : {NumSimulations},
     num_hands : {NumHandsSim},
     bankroll_cap : {1000 + MaxGainLong}]

\* Lines 61-66: the start of a session.
SimStart(s) ==
    /\ shoe' = sim_shuffled[s]
    /\ bankroll' = Cents(cfg.initial_bankroll)
    /\ running_count' = 0
    /\ bankrolls' = EmptyTraj
    /\ h' = 0
    /\ state' = "playing"
    /\ seen' = 0
    /\ last' = Step("start", NoHand, Cents(cfg.initial_bankroll), Len(sim_all_cards))

\* Lines 69-72: the reshuffle branch at the top of the hand loop.
SimReshuffle ==
    /\ variant = "sim" /\ state = "playing"
    /\ count_needs_reshuffle(shoe)
    /\ \E s \in 1..NumShuffles : shoe' = sim_shuffled[s]
    /\ running_count' = 0
    /\ seen' = 0
    /\ last' = Step("reshuffle", NoHand, bankroll, Len(shoe))
    /\ UNCHANGED <<variant, cfg, session, bankroll, bankrolls, h, state>>

\* Lines 74-117: one hand, once the reshuffle check has passed.
SimHand ==
    /\ variant = "sim" /\ state = "playing"
    /\ ~count_needs_reshuffle(shoe)
    /\ IF IsEmpty(shoe, 0) \/ IsEmpty(shoe, 1)
       THEN \* deck.pop() of an empty list, or the division by len(deck) = 0
            /\ state' = "crashed"
            /\ last' = Step("hand", [NoHand EXCEPT !.outcome = "crash"], bankroll, Len(shoe))
            /\ UNCHANGED <<shoe, running_count, bankroll, bankrolls, h, seen>>
       ELSE LET card == Card(shoe, 0)
                rc == running_count + hi_lo_values[card]
                true_count == PyRound(get_true_count(rc, Len(shoe) - 1))
            IN  /\ shoe' = Drop(shoe, 1)
                /\ running_count' = rc
                /\ seen' = seen + hi_lo_values[card]
                /\ IF ~sim_probs_ok(true_count)
                   THEN /\ state' = "crashed"
                        /\ last' = Step("hand", [NoHand EXCEPT !.outcome = "crash", !.n = 1],
                                        bankroll, Len(shoe))
                        /\ UNCHANGED <<bankroll, bankrolls, h>>
                   ELSE \E dbl \in BOOLEAN, o \in sim_outcomes(true_count) :
                        \E bj \in sim_bj_draws(shoe, 1, o) :
                        LET bet == sim_bet(true_count, bankroll, dbl)
                            b == sim_settle(bankroll, bet, o, bj)
                        IN  /\ b <= Cents(cfg.bankroll_cap)
                            /\ bankroll' = b
                            /\ bankrolls' = TrajAppend(bankrolls, b)
                            /\ h' = h + 1
                            /\ last' = Step("hand",
                                            HandResult(b, 0, 1, bet, <<>>, <<>>,
                                                       IF bj THEN "blackjack" ELSE o,
                                                       FALSE, dbl, FALSE),
                                            bankroll, Len(shoe))
                            /\ state' = IF b <= 0 THEN "ruined"
                                        ELSE IF h + 1 = cfg.num_hands THEN "exhausted"
                                        ELSE "playing"
    /\ UNCHANGED <<variant, cfg, session>>

-----------------------------------------------------------------------------
(* blackjack_simulation1.py *)

\* cards = list(card_values.keys()) * 4 * num_decks, for the num_decks of the
\* slider that the model follows
MaxNumDecks == 2

sim1_cards(num_decks) == create_shoe_of(num_decks)

\* random.shuffle(deck) of a fresh copy of cards, indexed by num_decks and s
sim1_shuffled ==
    SubSeq([nd \in 1..MaxNumDecks |-> Shuffles(sim1_cards(nd), NumShuffles)], 1, MaxNumDecks)

\* get_true_count of blackjack_simulation1.py: 0 when decks_remaining == 0
sim1_get_true_count(rc, cards_left) ==
    IF cards_left = 0 THEN [num |-> 0, den |-> 1] ELSE [num |-> rc * 52, den |-> cards_left]

\* int(x) of Python for x = num/den, den > 0: truncation towards zero
PyInt(x) == IF x.num >= 0 THEN x.num \div x.den ELSE -((-x.num) \div x.den)

\* Lines 49-52: bet sizing from the true count.
sim1_bet(true_count, bank) ==
    LET base == Cents(cfg.min_bet)
        sized == IF true_count.num > true_count.den
                 THEN base * Min(cfg.spread, PyInt(true_count))
                 ELSE base
    IN  Min(bank, sized)

\* Lines 55-58: the bankroll after the outcome.
sim1_settle(bank, bet, outcome) ==
    IF outcome = "win" THEN bank + bet
    ELSE IF outcome = "lose" THEN bank - bet
    ELSE bank

\* The sidebar inputs of blackjack_simulation1.py (lines 12-17): short
\* sessions on one deck, and a long session on two decks that plays the shoe
\* down to the reshuffle.
Sim1Configs ==
    [game_variant : {"Card Counting (8 Decks)"},
     strategy_mode : {"Card Counting + Basic Strategy"},
     initial_bankroll : {1000},
     min_bet : {500},
     spread : {1, 20},
     num_decks : {1},
     num_simulations : {NumSimulations},
     num_hands : {NumHandsShort},
     bankroll_cap : {1000 + MaxGainShort}]
    \cup
    [game_variant : {"Card Counting (8 Decks)"},
     strategy_mode : {"Card Counting + Basic Strategy"},
     initial_bankroll : {1000},
     min_bet : {500},
     spread : {20},
     num_decks : {MaxNumDecks},
     num_simulations : {NumSimulations},
     num_hands : {NumHandsSim1},
     bankroll_cap : {1000 + MaxGainLong}]

\* Lines 33-37: the start of a session.
Sim1Start(s) ==
    /\ shoe' = sim1_shuffled[cfg.num_decks][s]
    /\ bankroll' = Cents(cfg.initial_bankroll)
    /\ running_count' = 0
    /\ bankrolls' = EmptyTraj
    /\ h' = 0
    /\ state' = "playing"
    /\ seen' = 0
    /\ last' = Step("start", NoHand, Cents(cfg.initial_bankroll), Len(sim1_cards(cfg.num_decks)))

\* Lines 40-43: the reshuffle branch at the top of the hand loop.
Sim1Reshuffle ==
    /\ variant = "sim1" /\ state = "playing"
    /\ count_needs_reshuffle(shoe)
    /\ \E s \in 1..NumShuffles : shoe' = sim1_shuffled[cfg.num_decks][s]
    /\ running_count' = 0
    /\ seen' = 0
    /\ last' = Step("reshuffle", NoHand, bankroll, Len(shoe))
    /\ UNCHANGED <<variant, cfg, session, bankroll, bankrolls, h, state>>

\* Lines 45-63: one hand, once the reshuffle check has passed.
Sim1Hand ==
    /\ variant = "sim1" /\ state = "playing"
    /\ ~count_needs_reshuffle(shoe)
    /\ IF IsEmpty(shoe, 0)
       THEN \* deck.pop() of an empty list
            /\ state' = "crashed"
            /\ last' = Step("hand", [NoHand EXCEPT !.outcome = "crash"], bankroll, Len(shoe))
            /\ UNCHANGED <<shoe, running_count, bankroll, bankrolls, h, seen>>
       ELSE LET card == Card(shoe, 0)
                rc == running_count + hi_lo_values[card]
                true_count == sim1_get_true_count(rc, Len(shoe) - 1)
                bet == sim1_bet(true_count, bankroll)
            IN  /\ shoe' = Drop(shoe, 1)
                /\ running_count' = rc
                /\ seen' = seen + hi_lo_values[card]
                /\ \E o \in {"win", "lose", "push"} :
                     LET b == sim1_settle(bankroll, bet, o)
                     IN  /\ b <= Cents(cfg.bankroll_cap)
                         /\ bankroll' = b
                         /\ bankrolls' = TrajAppend(bankrolls, b)
                         /\ h' = h + 1
                         /\ last' = Step("hand",
                                         HandResult(b, 0, 1, bet, <<>>, <<>>, o, FALSE, FALSE, FALSE),
                                         bankroll, Len(shoe))
                         /\ state' = IF b <= 0 THEN "ruined"
                                     ELSE IF h + 1 = cfg.num_hands THEN "exhausted"
                                     ELSE "playing"
    /\ UNCHANGED <<variant, cfg, session>>

-----------------------------------------------------------------------------
(* The session loop *)

Variants == {"full", "sky", "sim", "sim1"}

Configs(v) ==
    CASE v = "full" -> FullConfigs
      [] v = "sky" -> SkyConfigs
      [] v = "sim" -> SimConfigs
      [] v = "sim1" -> Sim1Configs

Start(v, s) ==
    CASE v = "full" -> FullStart(s)
      [] v = "sky" -> SkyStart
      [] v = "sim" -> SimStart(s)
      [] v = "sim1" -> Sim1Start(s)

\* The shoe a session starts with, for the s-th outcome of the first shuffle.
FirstShoe(v, s) ==
    CASE v = "full" -> full_shuffled[s]
      [] v = "sky" -> <<>>
      [] v = "sim" -> sim_shuffled[s]
      [] v = "sim1" -> sim1_shuffled[cfg.num_decks][s]

Init ==
    /\ variant \in Variants
    /\ cfg \in Configs(variant)
    /\ session = 1
    /\ \E s \in 1..NumShuffles :
         shoe = FirstShoe(variant, s)
    /\ bankroll = Cents(cfg.initial_bankroll)
    /\ running_count = 0
    /\ bankrolls = EmptyTraj
    /\ h = 0
    /\ state = "playing"
    /\ seen = 0
    /\ last = Step("start", NoHand, Cents(cfg.initial_bankroll), Len(shoe))

\* for _ in range(num_simulations): the next session starts when one ends.
NextSession ==
    /\ state \in {"ruined", "exhausted", "stopped"}
    /\ session < cfg.num_simulations
    /\ session' = session + 1
    /\ \E s \in 1..NumShuffles : Start(variant, s)
    /\ UNCHANGED <<variant, cfg>>

\* One session of any of the four scripts.
Next ==
    \/ FullReshuffle
    \/ FullHand
    \/ SkyStop
    \/ SkyHand
    \/ SimReshuffle
    \/ SimHand
    \/ Sim1Reshuffle
    \/ Sim1Hand

Spec == Init /\ [][Next]_vars

\* The sessions of one run, one after the other.
NextSessions ==
    \/ Next
    \/ NextSession

SpecSessions == Init /\ [][NextSessions]_vars


-----------------------------------------------------------------------------
(* Properties of the sessions *)

\* The last step resolved a hand.
HandResolved == last.event = "hand" /\ last.outcome # "crash"

\* C1: in every variant the bet finally wagered on a hand, after the bankroll
\* cap and after any doubling, is at most the bankroll held before the hand;
\* the bankroll after the hand is at least that bankroll minus the bet, and
\* the bankroll is never negative.
C1_BetWithinBankroll ==
    /\ bankroll >= 0
    /\ HandResolved =>
         /\ 0 < last.bet /\ last.bet <= last.before
         /\ bankroll >= last.before - last.bet

\* C1 happens: a doubled hand of the full simulator whose doubled bet is cut
\* down to the whole bankroll.
C1_DoubledBetCapped ==
    /\ variant = "full" /\ HandResolved
    /\ last.doubled /\ last.bet = last.before

\* C2 as the specification states it: a session ends before its hand budget
\* is used up exactly when its bankroll is <= 0, it otherwise resolves
\* exactly num_hands hands, and no hand is dealt from a bankroll <= 0.
C2_StopsOnlyWhenRuined ==
    /\ state \in {"ruined", "stopped"} => bankroll <= 0
    /\ state = "exhausted" => h = cfg.num_hands
    /\ state = "playing" => h < cfg.num_hands
    /\ HandResolved => last.before > 0

\* C3 as the specification states it: between two hands of the full
\* simulator the running count is the Hi-Lo sum of every card that left the
\* shoe since the last reshuffle.
C3_CountIsCardsSeen == variant = "full" => running_count = seen

\* A natural: an Ace and a ten-valued card as the first two cards.
Natural(hand) ==
    /\ Len(hand) = 2
    /\ \/ hand[1] = "A" /\ hand[2] \in {"10", "J", "Q", "K"}
       \/ hand[2] = "A" /\ hand[1] \in {"10", "J", "Q", "K"}

\* bet x blackjack payout, in cents: 3:2, or 6:5 under "Blackjack Plus".
BlackjackWin(bet) ==
    IF variant = "full" /\ cfg.game_variant = "Blackjack Plus"
    THEN (bet * 6) \div 5
    ELSE (bet * 3) \div 2

\* The last step resolved a hand of a simulator that deals cards to a player
\* and a dealer.
DealtHandResolved == variant \in {"full", "sky"} /\ HandResolved

\* C4: after every hand of the full simulator and of the SkyCity simulator
\* the bankroll differs from the bankroll before it by +bet, by -bet, by 0,
\* or by +bet x blackjack payout, the last only when the player holds a
\* natural and the dealer does not; bet is the final wager of the hand.
C4_BankrollDelta ==
    DealtHandResolved =>
        LET delta == bankroll - last.before
        IN  \/ delta = last.bet
            \/ delta = 0 - last.bet
            \/ delta = 0
            \/ /\ delta = BlackjackWin(last.bet)
               /\ Natural(last.player) /\ ~Natural(last.dealer)

\* C4 happens: a natural of the full simulator paid 6:5.
C4_NaturalPaid ==
    /\ variant = "full" /\ HandResolved
    /\ cfg.game_variant = "Blackjack Plus"
    /\ Natural(last.player) /\ ~Natural(last.dealer)
    /\ bankroll - last.before = BlackjackWin(last.bet)
    /\ bankroll - last.before # last.bet

\* C5: naturals are resolved first.  Both hands natural: the bankroll is
\* unchanged; only the player's: it grows by bet x blackjack payout; only
\* the dealer's: it falls by the bet.  In all three cases the hand takes
\* the four dealt cards from the shoe and no more.
C5_NaturalsFirst ==
    (DealtHandResolved /\ Len(last.player) >= 2 /\ Len(last.dealer) >= 2) =>
        LET player == SubSeq(last.player, 1, 2)
            dealer == SubSeq(last.dealer, 1, 2)
            untouched == /\ last.popped = 4 /\ Len(last.player) = 2
                         /\ Len(last.dealer) = 2 /\ ~last.dealer_played
        IN  /\ Natural(player) /\ Natural(dealer) =>
                bankroll = last.before /\ untouched
            /\ Natural(player) /\ ~Natural(dealer) =>
                bankroll = last.before + BlackjackWin(last.bet) /\ untouched
            /\ ~Natural(player) /\ Natural(dealer) =>
                bankroll = last.before - last.bet /\ untouched

\* C5 happens: the SkyCity player and dealer both hold a natural.
C5_BothNatural ==
    /\ variant = "sky" /\ HandResolved
    /\ Natural(last.player) /\ Natural(last.dealer)

\* A soft hand: an Ace of the hand is counted as 11.
Soft(hand) ==
    /\ hand_value(hand) <= 21
    /\ SumOver(card_values, hand) - hand_value(hand) < 10 * Count(hand, "A")

\* C6 as the specification states it: the dealer of the full simulator and
\* of the SkyCity simulator takes one more card exactly when the hand is
\* below 17 or is a soft 17 (the soft-17 rule is on in every rule set), and
\* stops otherwise.
C6_DealerDrawRule ==
    (DealtHandResolved /\ last.dealer_played) =>
        \A k \in 2..Len(last.dealer) :
            LET hand == SubSeq(last.dealer, 1, k)
            IN  (k < Len(last.dealer)) <=>
                    \/ hand_value(hand) < 17
                    \/ hand_value(hand) = 17 /\ Soft(hand)

\* C7 as the specification states it: under the dealer_push_22 rule a dealer
\* total of exactly 22 against a player who has not busted, five-card
\* charlie apart, returns the bankroll unchanged.
C7_Push22 ==
    ( /\ variant = "full" /\ HandResolved /\ last.dealer_played
      /\ current_rules.dealer_push_22
      /\ hand_value(last.dealer) = 22
      /\ hand_value(last.player) <= 21
      /\ ~(current_rules.five_card_charlie /\ Len(last.player) >= 5) )
    => bankroll = last.before

\* C8: no card is drawn from an empty shoe: no session of any variant
\* crashes on deck.pop() and the SkyCity simulator never deals the random
\* card of deal_card.
C8_NoDrawFromEmptyShoe ==
    /\ state # "crashed"
    /\ last.outcome # "crash"
    /\ last.event # "fallback"

\* C8 happens: the full simulator plays a hand that draws beyond the four
\* dealt cards from a shoe already close to the reshuffle threshold.
C8_HandNearThreshold ==
    /\ variant = "full" /\ HandResolved
    /\ last.len_before < Len(create_shoe) \div 4 + 6
    /\ last.popped > 4

\* C9: right after a reshuffle of the full simulator and of the two count
\* simulators the running count is 0 and the shoe holds 52 x num_decks
\* cards, each of the 13 ranks 4 x num_decks times.
C9_ReshuffleRestores ==
    (variant \in {"full", "sim", "sim1"} /\ last.event = "reshuffle") =>
        /\ running_count = 0
        /\ Len(shoe) = 52 * cfg.num_decks
        /\ \A r \in Ranks : Count(shoe, r) = 4 * cfg.num_decks

\* C9 happens: the two-deck count simulator has reshuffled.
C9_Reshuffled ==
    /\ variant = "sim1" /\ cfg.num_decks > 1
    /\ last.event = "reshuffle"
    /\ last.len_before < 52

\* The number of cards below which the loop rebuilds the shoe.  The SkyCity
\* simulator configures none; the quarter of the shoe stands for it.
PenetrationThreshold ==
    IF variant \in {"sim", "sim1"} THEN 52
    ELSE (52 * cfg.num_decks * RESHUFFLE_PENETRATION.num) \div RESHUFFLE_PENETRATION.den

\* A hand step continues with the shoe the previous step left.
ContinuesShoe == shoe' = Drop(shoe, last'.popped)

\* C10 as the specification states it, for all four variants: the shoe is
\* rebuilt only between two hands and only when fewer cards than the
\* threshold remain; a hand that starts with at least the threshold goes on
\* drawing from the shoe the previous hand left.
C10_RebuildOnlyBelowThreshold ==
    [][ /\ last'.event = "reshuffle" => Len(shoe) < PenetrationThreshold
        /\ (last'.event = "hand" /\ Len(shoe) >= PenetrationThreshold) => ContinuesShoe
      ]_vars

\* C10, amended: the full simulator and the two count simulators rebuild
\* the shoe only between two hands and only below the threshold, and their
\* hands go on drawing from the shoe the previous hand left; the SkyCity
\* simulator rebuilds the shoe before every hand, so each of its hands
\* draws from a complete shoe, and it rebuilds at no other point.
C10_RebuildPolicy ==
    [][ /\ variant \in {"full", "sim", "sim1"} =>
              /\ last'.event = "reshuffle" =>
                     Len(shoe) < PenetrationThreshold /\ Len(shoe') = 52 * cfg.num_decks
              /\ last'.event = "hand" =>
                     Len(shoe) >= PenetrationThreshold /\ ContinuesShoe
        /\ variant = "sky" =>
              /\ last'.event # "reshuffle"
              /\ last'.event \in {"hand", "stop"} =>
                     \E s \in 1..NumDeals : shoe' = Drop(sky_shuffled[s], last'.popped)
      ]_vars

\* C10 happens: a later hand of a SkyCity session was dealt from a complete
\* shoe although the hand before it had left more than the threshold.
C10_SkyRebuiltForLaterHand ==
    /\ variant = "sky" /\ HandResolved /\ h >= 2
    /\ last.len_before = 52 * cfg.num_decks
    /\ Len(shoe) = last.len_before - last.popped

\* The sessions that bet flat: spread 1 in the two count simulators, counting
\* not allowed in the full simulator, and every SkyCity session.
FlatBetting ==
    \/ variant \in {"sim", "sim1"} /\ cfg.spread = 1
    \/ variant = "full" /\ ~current_rules.counting_allowed
    \/ variant = "sky"

\* The minimum bet, or the whole bankroll when it is smaller.
FlatBet == Min(last.before, Cents(cfg.min_bet))

\* C11 as the specification states it: in a flat-betting session every
\* hand is settled with a wager equal to the minimum bet, or to the whole
\* bankroll when that is smaller, and never with a larger one.
C11_FlatWager == (FlatBetting /\ HandResolved) => last.bet = FlatBet

\* C11, amended: in a flat-betting session the wager of a hand that is not
\* doubled is the minimum bet, or the whole bankroll when that is smaller;
\* a doubled hand (double-down in the full simulator, the random
\* double/split in blackjack_simulation.py) is settled with twice that
\* wager, capped at the bankroll.
C11_FlatWagerUnlessDoubled ==
    (FlatBetting /\ HandResolved) =>
        last.bet = IF last.doubled THEN Min(last.before, 2 * FlatBet) ELSE FlatBet

\* C11 happens: a flat-betting session of the full simulator settles a
\* doubled hand with twice the minimum bet.
C11_DoubledFlatWager ==
    /\ variant = "full" /\ FlatBetting /\ HandResolved
    /\ last.doubled
    /\ last.bet = 2 * Cents(cfg.min_bet)

\* The sessions that size the bet by the count.
CountedBetting ==
    \/ variant = "full" /\ current_rules.counting_allowed
    \/ variant \in {"sim", "sim1"}

\* The true count the last hand sized its bet with, as a fraction: the full
\* simulator takes it before the deal, the count simulators after their
\* card of the hand has been popped.
TrueCountOfHand ==
    IF variant = "full"
    THEN LET dealt == SubSeq(last.player, 1, 2) \o SubSeq(last.dealer, 1, 2)
         IN  [num |-> (running_count - SumOver(hi_lo_values, dealt)) * 52,
              den |-> last.len_before]
    ELSE [num |-> running_count * 52, den |-> Len(shoe)]

\* The largest multiplier of the minimum bet: the spread of the sidebar, and
\* the 10 of line 122 in the full simulator, which has no spread input.
Spread == IF variant = "full" THEN 10 ELSE cfg.spread

\* minBet x min(spread, max(1, t)), capped at the bankroll.
SpreadWager(t) ==
    Min(last.before, Cents(cfg.min_bet) * Min(Spread, IF t > 1 THEN t ELSE 1))

\* C12 as the specification states it: with counting enabled the wager of
\* a hand before any doubling is minBet x min(spread, max(1, t)), t the
\* true count truncated or rounded to an integer, capped at the bankroll:
\* a whole multiple of minBet unless the bankroll caps it.
C12_WagerIsWholeMultiple ==
    (CountedBetting /\ HandResolved /\ ~last.doubled /\ Len(shoe) > 0) =>
        \/ last.bet = SpreadWager(PyInt(TrueCountOfHand))
        \/ last.bet = SpreadWager(PyRound(TrueCountOfHand))

\* The wager, before any doubling, that the variant's own bet sizing gives
\* for the running count and the shoe as they are before the hand.
WagerFromCountBeforeHand ==
    IF variant = "full"
    THEN full_bet(full_true_count(running_count, shoe), bankroll)
    ELSE IF variant = "sim"
    THEN sim_base_bet(PyRound(get_true_count(running_count, Len(shoe))), bankroll)
    ELSE sim1_bet(sim1_get_true_count(running_count, Len(shoe)), bankroll)

\* C13 as the specification states it: in the full simulator and the two
\* count simulators the bet of a hand is sized with the true count of the
\* running count and the shoe depth as they are before any card of the
\* hand has left the shoe.
C13_TrueCountBeforeDeal ==
    [][ ( /\ variant \in {"full", "sim", "sim1"}
          /\ last'.event = "hand" /\ last'.outcome # "crash"
          /\ ~last'.doubled )
        => last'.bet = WagerFromCountBeforeHand ]_vars

\* C14 as the specification states it: in all four variants the trajectory
\* of a session holds one entry per completed hand, the entry appended by a
\* hand being the bankroll right after it; SkyCity sessions that stop on a
\* bankroll below the minimum bet included.
C14_OneEntryPerHand ==
    /\ bankrolls.len = h
    /\ h > 0 => bankrolls.last = bankroll

-----------------------------------------------------------------------------
\* C20: with a minimum bet greater than the initial bankroll (the one
\* invalid configuration the sidebar lets through) no hand of any session is
\* simulated and no bankroll value is produced.
C20_InvalidConfigRejected ==
    Cents(cfg.min_bet) > Cents(cfg.initial_bankroll) =>
        /\ last.event # "hand"
        /\ h = 0
        /\ bankrolls.len = 0

\* A full shoe of the variant: every rank 4 times per deck.
FullShoe(deck) ==
    LET decks == CASE variant = "full" -> FULL_NUM_DECKS
                   [] variant = "sky" -> SKY_NUM_DECKS
                   [] variant = "sim" -> SIM_NUM_DECKS
                   [] variant = "sim1" -> cfg.num_decks
    IN  /\ Len(deck) = 52 * decks
        /\ \A r \in Ranks : Count(deck, r) = 4 * decks

\* C21: the step that begins a session gives it the initial bankroll, an
\* empty trajectory, running count 0 and a freshly built full shoe (in
\* skycity_blackjack.py the shoe is built by the first hand), whatever the
\* session before left behind: the state it starts in is a state the first
\* session can start in.
C21_SessionsStartFresh ==
    [][/\ (variant = "sky" /\ h = 0 /\ last'.event = "hand") =>
              last'.len_before = 52 * SKY_NUM_DECKS
       /\ session' # session =>
         /\ session' = session + 1
         /\ bankroll' = Cents(cfg.initial_bankroll)
         /\ bankrolls' = EmptyTraj
         /\ running_count' = 0
         /\ h' = 0
         /\ state' = "playing"
         /\ last'.event = "start"
         /\ \E s \in 1..NumShuffles : shoe' = FirstShoe(variant, s)
         /\ variant # "sky" => FullShoe(shoe')
         /\ UNCHANGED <<variant, cfg>>]_vars

\* C21 happens: the second session has played its first hand, dealt from the
\* top of a full shoe.
C21_SecondSessionStarted ==
    /\ session = 2
    /\ HandResolved
    /\ h = 1
    /\ last.before = Cents(cfg.initial_bankroll)
    /\ last.len_before = (IF variant = "sim1" THEN 52 * cfg.num_decks
                          ELSE IF variant = "sky" THEN 52 * SKY_NUM_DECKS
                          ELSE 52 * FULL_NUM_DECKS)

\* C24: in the full and the SkyCity simulator a hand on which the player
\* busts is lost at once for the wagered bet and the dealer draws nothing:
\* the shoe has lost the four cards dealt and the player's hit cards, no
\* more.  A hand without a natural on which the player does not bust is
\* settled only after the dealer play-out has run.
C24_BustEndsHandDealerElsePlays ==
    (variant \in {"full", "sky"} /\ DealtHandResolved) =>
        IF hand_value(last.player) > 21
        THEN /\ last.outcome = "lose"
             /\ bankroll = last.before - last.bet
             /\ ~last.dealer_played
             /\ Len(last.dealer) = 2
             /\ last.popped = 2 + Len(last.player)
             /\ Len(shoe) = last.len_before - (2 + Len(last.player))
        ELSE (~Natural(last.player) /\ ~Natural(last.dealer)) => last.dealer_played

\* C24 happens: the player busts with a hit card against a dealer hand
\* below 17, which the play-out would have drawn to.
C24_BustAgainstDrawingDealer ==
    /\ variant \in {"full", "sky"} /\ DealtHandResolved
    /\ hand_value(last.player) > 21
    /\ hand_value(last.dealer) < 17
    /\ Len(last.dealer) = 2

\* C25: in the full simulator a doubled hand is a two-card hand of 9, 10 or
\* 11 that took exactly one more card and nothing after it: it ends with
\* three cards, is never bust, and its wager is min(bankroll, 2 x bet), bet
\* being the wager sized before the deal; a hand that was not doubled keeps
\* that wager.
C25_DoubleOnFirstDecisionOnly ==
    [][(variant = "full" /\ last'.event = "hand" /\ last'.outcome # "crash") =>
          IF last'.doubled
          THEN /\ Len(last'.player) = 3
               /\ hand_value(SubSeq(last'.player, 1, 2)) \in {9, 10, 11}
               /\ hand_value(last'.player) <= 21
               /\ last'.popped >= 5
               /\ last'.bet = Min(bankroll, 2 * WagerFromCountBeforeHand)
          ELSE last'.bet = WagerFromCountBeforeHand]_vars

\* C25 happens: a doubled hand has drawn its one card to 19 or more, for a
\* doubled wager that the bankroll covers.
C25_DoubledHandDrawsOneCard ==
    /\ variant = "full" /\ HandResolved
    /\ last.doubled
    /\ Len(last.player) = 3
    /\ hand_value(last.player) >= 19
    /\ last.bet < last.before

(* The functions of the scripts on their own: the inputs are drawn in the  *)
(* initial state, an action applies the function, `last` holds the call.   *)

MaxCards == 3       \* cards of a hand given to hand_value and basic_strategy

\* No session is running.
NoSession ==
    /\ session = 1
    /\ shoe = <<>>
    /\ running_count = 0
    /\ bankroll = 0
    /\ bankrolls = EmptyTraj
    /\ h = 0
    /\ seen = 0

\* The hands the games hold: two cards or more.
RECURSIVE HandsOfLen(_)
HandsOfLen(n) ==
    IF n = 0 THEN {<<>>}
    ELSE {Append(hand, r) : hand \in HandsOfLen(n - 1), r \in Ranks}

Hands == UNION {HandsOfLen(n) : n \in 2..MaxCards}

\* A hand of blackjack_simulator_full.py or of skycity_blackjack.py.
InitHands ==
    /\ variant \in {"full", "sky"}
    /\ cfg = CHOOSE c \in Configs(variant) : TRUE
    /\ NoSession
    /\ state = "input"
    /\ \E hand \in Hands :
         last = [event |-> "hand", hand |-> hand, upcard |-> "none",
                 can_double |-> FALSE, result |-> "none"]

\* hand_value(hand), the same function in both scripts.
ApplyHandValue ==
    /\ state = "input"
    /\ state' = "returned"
    /\ last' = [last EXCEPT !.event = "hand_value", !.result = hand_value(last.hand)]
    /\ UNCHANGED <<variant, cfg, session, shoe, running_count, bankroll, bankrolls, h, seen>>

\* basic_strategy(player, dealer_upcard, can_double) of the full simulator.
ApplyBasicStrategy ==
    /\ variant = "full" /\ state = "input"
    /\ state' = "returned"
    /\ \E up \in Ranks, cd \in BOOLEAN :
         last' = [last EXCEPT !.event = "basic_strategy", !.upcard = up,
                              !.can_double = cd,
                              !.result = basic_strategy(last.hand, up, cd)]
    /\ UNCHANGED <<variant, cfg, session, shoe, running_count, bankroll, bankrolls, h, seen>>

\* basic_strategy(player_hand, dealer_card) of skycity_blackjack.py.
ApplySkyBasicStrategy ==
    /\ variant = "sky" /\ state = "input"
    /\ state' = "returned"
    /\ \E up \in Ranks :
         last' = [last EXCEPT !.event = "basic_strategy", !.upcard = up,
                              !.result = sky_basic_strategy(last.hand, up)]
    /\ UNCHANGED <<variant, cfg, session, shoe, running_count, bankroll, bankrolls, h, seen>>

\* is_soft(hand) of the full simulator.
ApplyIsSoft ==
    /\ variant = "full" /\ state = "input"
    /\ state' = "returned"
    /\ last' = [last EXCEPT !.event = "is_soft", !.result = is_soft(last.hand)]
    /\ UNCHANGED <<variant, cfg, session, shoe, running_count, bankroll, bankrolls, h, seen>>

NextHands ==
    \/ ApplyHandValue
    \/ ApplyBasicStrategy
    \/ ApplySkyBasicStrategy
    \/ ApplyIsSoft

SpecHands == InitHands /\ [][NextHands]_vars

\* The decision table of the specification.
StrategyTable(total, cards, upcard, can_double) ==
    IF total >= 17 THEN "stand"
    ELSE IF total >= 13 THEN (IF upcard \in {"2", "3", "4", "5", "6"} THEN "stand" ELSE "hit")
    ELSE IF total = 12 THEN (IF upcard \in {"4", "5", "6"} THEN "stand" ELSE "hit")
    ELSE IF cards = 2 /\ can_double /\ total \in {9, 10, 11} THEN "double"
    ELSE "hit"

\* C15 as the specification states it: basic_strategy of the full simulator
\* and, with can_double false, of skycity_blackjack.py return the decision
\* of the table for every hand, up-card and can_double flag.
C15_StrategyFollowsTable ==
    last.event = "basic_strategy" =>
        last.result = StrategyTable(hand_value(last.hand), Len(last.hand),
                                    last.upcard, last.can_double)

\* Every Ace as 1.
HardTotal(hand) == SumOver(card_values, hand) - 10 * Count(hand, "A")

\* The totals of a hand: each Ace as 1 or as 11.
Totals(hand) == {HardTotal(hand) + 10 * k : k \in 0..Count(hand, "A")}

\* C16: hand_value returns the largest total of the hand that does not
\* exceed 21, each Ace counted as 1 or as 11, and the total with every Ace
\* as 1 when all totals exceed 21.
C16_HandValueIsBestTotal ==
    last.event = "hand_value" =>
        LET fit == {v \in Totals(last.hand) : v <= 21}
        IN  IF fit # {}
            THEN last.result \in fit /\ \A v \in fit : v <= last.result
            ELSE last.result = HardTotal(last.hand)

\* C16 happens: hand_value of a hand with two Aces, one counted as 11 and
\* one as 1.
C16_TwoAcesOneReduced ==
    /\ last.event = "hand_value"
    /\ Count(last.hand, "A") = 2
    /\ last.result = HardTotal(last.hand) + 10

-----------------------------------------------------------------------------
\* C22: is_soft(hand) of the full simulator is true exactly when the total
\* returned by hand_value is at most 21 and still counts an Ace of the hand
\* as 11: true for {A, 6}, false for {A, 6, 10} and for {10, 7}.
C22_IsSoftIffAceCountedEleven ==
    last.event = "is_soft" => (last.result <=> Soft(last.hand))

(* Padding and statistics: the code after the sessions of each script. *)

MaxTrajLen == 3     \* num_hands of the sessions given to the padding

\* Bankrolls of a trajectory, in cents: ruin, a bankroll below MIN_BET, and
\* a bankroll that can still bet.
TrajValues == {0, 1250, 100000}

RECURSIVE TrajsOfLen(_)
TrajsOfLen(n) ==
    IF n = 0 THEN {<<>>}
    ELSE {Append(r, b) : r \in TrajsOfLen(n - 1), b \in TrajValues}

\* The trajectories simulate_single_run can return for num_hands =
\* MaxTrajLen.  A session plays on while it has not stopped; it ends short
\* of num_hands only on ruin, and a SkyCity session that ends short, on a
\* bankroll below MIN_BET, holds that bankroll twice.
Trajectories(v) ==
    LET Stops(b) == IF v = "sky" THEN b < Cents(MIN_BET) ELSE b <= 0
        PlaysOn(r, n) == \A i \in 1..n : ~Stops(r[i])
    IN  {r \in UNION {TrajsOfLen(n) : n \in 1..MaxTrajLen} :
            \/ Len(r) = MaxTrajLen /\ PlaysOn(r, Len(r) - 1)
            \/ /\ v # "sky" /\ Len(r) < MaxTrajLen
               /\ PlaysOn(r, Len(r) - 1) /\ Stops(r[Len(r)])
            \/ /\ v = "sky" /\ Len(r) >= 2
               /\ PlaysOn(r, Len(r) - 2)
               /\ Stops(r[Len(r)]) /\ r[Len(r) - 1] = r[Len(r)]}

\* max_length = max(len(r) for r in all_results)
max_length(all_results) ==
    CHOOSE n \in {Len(all_results[i]) : i \in DOMAIN all_results} :
        \A i \in DOMAIN all_results : Len(all_results[i]) <= n

\* An r + [r[0]] * (max_length - len(r)): padding with the first entry.
pad_with_first(r, n) == [j \in 1..n |-> IF j <= Len(r) THEN r[j] ELSE r[1]]

\* r + [r[-1]] * (max_length - len(r))
pad(r, n) == [j \in 1..n |-> IF j <= Len(r) THEN r[j] ELSE r[Len(r)]]

\* padded_results = [r + [r[-1]] * (max_length - len(r)) for r in all_results]
padded_results(all_results) ==
    [i \in DOMAIN all_results |-> pad(all_results[i], max_length(all_results))]

\* final_bankrolls = array_results[:, -1]
final_bankrolls(array_results) ==
    [i \in DOMAIN array_results |-> array_results[i][Len(array_results[i])]]

\* risk_of_ruin = np.mean(final_bankrolls <= 0) * 100, as a fraction
risk_of_ruin(finals) ==
    [num |-> 100 * Cardinality({i \in DOMAIN finals : finals[i] <= 0}),
     den |-> Len(finals)]

\* all_results = [simulate_single_run() for _ in range(num_simulations)]
InitResults ==
    /\ variant \in Variants
    /\ cfg = [(CHOOSE c \in Configs(variant) : TRUE)
                EXCEPT !.num_simulations = NumSimulations, !.num_hands = MaxTrajLen]
    /\ NoSession
    /\ state = "simulated"
    /\ \E results \in [1..NumSimulations -> Trajectories(variant)] :
         last = [event |-> "all_results", all_results |-> results,
                 padded_results |-> <<>>, final_bankrolls |-> <<>>,
                 risk_of_ruin |-> [num |-> 0, den |-> 1]]

\* The padding and the statistics that follow the sessions.
PadResults ==
    /\ state = "simulated"
    /\ state' = "reported"
    /\ LET padded == padded_results(last.all_results)
           finals == final_bankrolls(padded)
       IN  last' = [last EXCEPT !.event = "statistics",
                                !.padded_results = padded,
                                !.final_bankrolls = finals,
                                !.risk_of_ruin = risk_of_ruin(finals)]
    /\ UNCHANGED <<variant, cfg, session, shoe, running_count, bankroll, bankrolls, h, seen>>

NextResults == PadResults

SpecResults == InitResults /\ [][NextResults]_vars

\* C17: after padding every trajectory has the length of the longest one,
\* keeps its own entries and is filled with its own last bankroll; the
\* final bankroll of session i is the last value of its own trajectory, and
\* the risk of ruin is the share of the sessions whose last value is <= 0.
C17_PaddingHoldsLastBankroll ==
    last.event = "statistics" =>
        LET results == last.all_results
            Last(i) == results[i][Len(results[i])]
        IN  /\ \A i \in DOMAIN results :
                 /\ \E k \in DOMAIN results :
                      Len(last.padded_results[i]) = Len(results[k])
                 /\ \A m \in DOMAIN results : Len(results[m]) <= Len(last.padded_results[i])
                 /\ \A j \in 1..Len(last.padded_results[i]) :
                      last.padded_results[i][j] =
                          IF j <= Len(results[i]) THEN results[i][j] ELSE Last(i)
                 /\ last.final_bankrolls[i] = Last(i)
            /\ last.risk_of_ruin.den = Len(results)
            /\ last.risk_of_ruin.num =
                   100 * Cardinality({i \in DOMAIN results : Last(i) <= 0})

\* C17 happens: a session stopped with a bankroll above 0 is padded up to
\* the length of a longer one, and another session is ruined.
C17_ShortSessionPadded ==
    /\ last.event = "statistics"
    /\ \E i, k \in DOMAIN last.all_results :
         /\ Len(last.all_results[i]) < Len(last.all_results[k])
         /\ last.final_bankrolls[i] > 0
         /\ last.final_bankrolls[k] <= 0
    /\ last.risk_of_ruin.num > 0

(* The true count on its own. *)
MaxRunningCount == 4     \* running counts from -MaxRunningCount to MaxRunningCount
MaxCardsLeft == 8        \* cards left in the shoe, from 0

\* A running count and two numbers of cards left, the second the larger.
InitTrueCount ==
    /\ variant \in {"full", "sim", "sim1"}
    /\ cfg = CHOOSE c \in Configs(variant) : TRUE
    /\ NoSession
    /\ state = "input"
    /\ \E rc \in (-MaxRunningCount)..MaxRunningCount,
          fewer \in 0..MaxCardsLeft, more \in 0..MaxCardsLeft :
         /\ fewer < more
         /\ last = [event |-> "counts", running_count |-> rc,
                    fewer |-> fewer, more |-> more,
                    true_count_fewer |-> [num |-> 0, den |-> 1],
                    true_count_more |-> [num |-> 0, den |-> 1]]

\* The true count of the session loop of blackjack_simulator_full.py for
\* shoes of the two lengths.
ApplyFullTrueCount ==
    /\ variant = "full" /\ state = "input"
    /\ state' = "returned"
    /\ LET deck(n) == [i \in 1..n |-> "2"]
       IN  last' = [last EXCEPT
                      !.event = "true_count",
                      !.true_count_fewer = full_true_count(last.running_count, deck(last.fewer)),
                      !.true_count_more = full_true_count(last.running_count, deck(last.more))]
    /\ UNCHANGED <<variant, cfg, session, shoe, running_count, bankroll, bankrolls, h, seen>>

\* get_true_count of blackjack_simulation.py for the two deck lengths.
ApplyGetTrueCount ==
    /\ variant = "sim" /\ state = "input"
    /\ state' = "returned"
    /\ last' = [last EXCEPT
                  !.event = "true_count",
                  !.true_count_fewer = get_true_count(last.running_count, last.fewer),
                  !.true_count_more = get_true_count(last.running_count, last.more)]
    /\ UNCHANGED <<variant, cfg, session, shoe, running_count, bankroll, bankrolls, h, seen>>

\* get_true_count of blackjack_simulation1.py for the two deck lengths.
ApplySim1GetTrueCount ==
    /\ variant = "sim1" /\ state = "input"
    /\ state' = "returned"
    /\ last' = [last EXCEPT
                  !.event = "true_count",
                  !.true_count_fewer = sim1_get_true_count(last.running_count, last.fewer),
                  !.true_count_more = sim1_get_true_count(last.running_count, last.more)]
    /\ UNCHANGED <<variant, cfg, session, shoe, running_count, bankroll, bankrolls, h, seen>>

NextTrueCount ==
    \/ ApplyFullTrueCount
    \/ ApplyGetTrueCount
    \/ ApplySim1GetTrueCount

SpecTrueCount == InitTrueCount /\ [][NextTrueCount]_vars

\* x < y and x = 0 for fractions with positive denominators
FracLess(x, y) == x.num * y.den < y.num * x.den
FracZero(x) == x.den > 0 /\ x.num = 0

\* C18 as stated: the true count is 0 when no card is left, and for a fixed
\* running count it never grows when the number of remaining decks grows.
C18_TrueCountDecreasing ==
    last.event = "true_count" =>
        /\ last.fewer = 0 => FracZero(last.true_count_fewer)
        /\ ~FracLess(last.true_count_fewer, last.true_count_more)

\* C18, amended: the true count is 0 when no card is left; with cards left
\* it has the sign of the running count and moves towards 0 as the number
\* of remaining decks grows: down for a positive running count, up for a
\* negative one, and it stays 0 for a running count of 0.
C18_TrueCountShrinksTowardsZero ==
    last.event = "true_count" =>
        LET zero == [num |-> 0, den |-> 1]
            few == last.true_count_fewer
            more == last.true_count_more
        IN  /\ few.den > 0 /\ more.den > 0
            /\ last.fewer = 0 => FracZero(few)
            /\ last.fewer > 0 => few.num * last.fewer = 52 * last.running_count * few.den
            /\ more.num * last.more = 52 * last.running_count * more.den
            /\ last.fewer > 0 =>
                 /\ last.running_count > 0 => FracLess(more, few) /\ FracLess(zero, more)
                 /\ last.running_count < 0 => FracLess(few, more) /\ FracLess(more, zero)
                 /\ last.running_count = 0 => FracZero(few) /\ FracZero(more)

\* C18 happens: a negative running count whose true count grows with the
\* number of remaining decks.
C18_NegativeCountGrows ==
    /\ last.event = "true_count"
    /\ last.running_count < 0
    /\ last.fewer > 0
    /\ FracLess(last.true_count_fewer, last.true_count_more)

(* The dealer play-out on its own, one pass of its loop per step. *)
MaxDeckLen == 4     \* cards of the deck handed to the play-out

\* The ranks of the cards of that deck, and of the cards deal_card makes up
\* when the deck is empty: an Ace, a low card and a ten.
DealerDeckRanks == {"A", "3", "10"}

RECURSIVE DecksOfLen(_)
DecksOfLen(n) ==
    IF n = 0 THEN {<<>>}
    ELSE {Append(d, r) : d \in DecksOfLen(n - 1), r \in DealerDeckRanks}

\* The dealer's two cards and the deck when the play-out is called.
InitDealer ==
    /\ variant \in {"full", "sky"}
    /\ \E gv \in {c.game_variant : c \in Configs(variant)} :
         cfg = CHOOSE c \in Configs(variant) : c.game_variant = gv
    /\ NoSession
    /\ state = "dealer_play"
    /\ \E c1 \in Ranks, c2 \in Ranks, deck \in UNION {DecksOfLen(n) : n \in 0..MaxDeckLen} :
         last = [event |-> "call", dealer |-> <<c1, c2>>, deck |-> deck, n |-> 0]

\* dealer_play, a pass that ends in dealer.append(deck.pop()).
FullDealerDraws ==
    /\ variant = "full" /\ state = "dealer_play"
    /\ dealer_draws(last.dealer)
    /\ ~IsEmpty(last.deck, last.n)
    /\ last' = [last EXCEPT !.event = "draw",
                            !.dealer = Append(last.dealer, Card(last.deck, last.n)),
                            !.n = last.n + 1]
    /\ UNCHANGED <<variant, cfg, session, shoe, running_count, bankroll, bankrolls, h, state, seen>>

\* dealer_play, a pass whose deck.pop() finds the deck empty: IndexError.
FullDealerIndexError ==
    /\ variant = "full" /\ state = "dealer_play"
    /\ dealer_draws(last.dealer)
    /\ IsEmpty(last.deck, last.n)
    /\ state' = "crashed"
    /\ last' = [last EXCEPT !.event = "IndexError"]
    /\ UNCHANGED <<variant, cfg, session, shoe, running_count, bankroll, bankrolls, h, seen>>

\* dealer_play, a pass that ends in return dealer.
FullDealerReturns ==
    /\ variant = "full" /\ state = "dealer_play"
    /\ ~dealer_draws(last.dealer)
    /\ state' = "returned"
    /\ last' = [last EXCEPT !.event = "return"]
    /\ UNCHANGED <<variant, cfg, session, shoe, running_count, bankroll, bankrolls, h, seen>>

\* play_dealer_hand, a pass of the while loop: hand.append(deal_card(deck)).
SkyDealerDraws ==
    /\ variant = "sky" /\ state = "dealer_play"
    /\ sky_dealer_draws(last.dealer)
    /\ \E fb \in (IF IsEmpty(last.deck, last.n) THEN DealerDeckRanks ELSE {"A"}) :
         LET c == deal_card(last.deck, last.n, fb)
         IN  last' = [last EXCEPT !.event = "draw",
                                  !.dealer = Append(last.dealer, c.card),
                                  !.n = c.n]
    /\ UNCHANGED <<variant, cfg, session, shoe, running_count, bankroll, bankrolls, h, state, seen>>

\* play_dealer_hand, the loop condition is false: return hand.
SkyDealerReturns ==
    /\ variant = "sky" /\ state = "dealer_play"
    /\ ~sky_dealer_draws(last.dealer)
    /\ state' = "returned"
    /\ last' = [last EXCEPT !.event = "return"]
    /\ UNCHANGED <<variant, cfg, session, shoe, running_count, bankroll, bankrolls, h, seen>>

NextDealer ==
    \/ FullDealerDraws
    \/ FullDealerIndexError
    \/ FullDealerReturns
    \/ SkyDealerDraws
    \/ SkyDealerReturns

\* The loop runs on its own thread of control: a pass that can be taken is taken.
SpecDealer == InitDealer /\ [][NextDealer]_vars /\ WF_vars(NextDealer)

\* C23: the dealer play-out ends for every deck and every two-card dealer
\* hand (in the full simulator by return or, on an empty deck, by the
\* IndexError of deck.pop()); when it returns the hand value is at least
\* 17; and no card is drawn onto a hand worth 18 or more.
C23_DealerPlayOutEnds ==
    /\ <>(state \in {"returned", "crashed"})
    /\ [](state = "returned" => hand_value(last.dealer) >= 17)
    /\ [][last'.event = "draw" => hand_value(last.dealer) <= 17]_vars

\* C23 happens: the play-out has returned a hand of four cards or more,
\* drawn from a total below 17, that stands on 17..21.
C23_DealerStandsAfterDraws ==
    /\ state = "returned"
    /\ Len(last.dealer) >= 4
    /\ hand_value(last.dealer) \in 17..21

====
